---- MODULE Spec2Model ----
(***************************************************************************)
(* Repo-Surgeon: the detector registry (detectors/base.py), the scan       *)
(* pipeline (cli.py, RepoSurgeon.run) and the tracer (tracing.py).         *)
(*                                                                         *)
(* Three specifications share the variables:                               *)
(*   SpecRegistry  the operations of one DetectorRegistry                  *)
(*   Spec          one RepoSurgeon.run over a registry, step by step       *)
(*   SpecTracer    threads using one tracer family concurrently            *)
(***************************************************************************)
EXTENDS Integers, Sequences, FiniteSets, TLC

VARIABLES
    registry,   \* DetectorRegistry._registry: dict in insertion order, <<[name, cls]>>
    lastOp,     \* the registry operation just performed, its arguments and outcome
    tracers,    \* heap of Tracer objects: [context, events, lock, sink]
    buffers,    \* heap of event lists (Tracer._events), by list identity
    locks,      \* heap of threading.Lock objects: 0 = free, t = held by thread t
    sinkLog,    \* what the recording sink has been called with, in call order
    now,        \* the reading the injected clock returns next
    run,        \* the frame of RepoSurgeon.run / Detector.run / the two spans
    th,         \* per thread: the frame of its current Tracer call
    calls       \* per thread: history of the events it has asked emit to record

regVars    == <<registry, lastOp>>
tracerVars == <<tracers, buffers, locks, sinkLog, now>>
threadVars == <<th, calls>>
vars       == <<registry, lastOp, tracers, buffers, locks, sinkLog, now, run, th, calls>>

----------------------------------------------------------------------------
(* Python values *)

\* Optional[T]: None is the empty tuple, a present value v is <<v>>.
None == <<>>
Some(v) == <<v>>
IsNone(o) == o = <<>>
Val(o) == o[1]

\* The strings the model uses, as sequences of code points: str comparison
\* in sorted() is lexicographic on code points.
CodePoints ==
    ("" :> <<>>) @@ ("a" :> <<97>>) @@ ("ab" :> <<97, 98>>) @@ ("b" :> <<98>>)
    @@ ("zz" :> <<122, 122>>)

RECURSIVE SeqLess(_, _)
SeqLess(s, t) ==
    IF t = <<>> THEN FALSE
    ELSE IF s = <<>> THEN TRUE
    ELSE IF Head(s) # Head(t) THEN Head(s) < Head(t)
    ELSE SeqLess(Tail(s), Tail(t))

\* s < t on Python str
StrLess(s, t) == SeqLess(CodePoints[s], CodePoints[t])

\* bool(s) of a str
Truthy(s) == s # ""

\* {**a, **b}: a new dict, b's keys win
Merge(a, b) ==
    [k \in (DOMAIN a) \cup (DOMAIN b) |-> IF k \in DOMAIN b THEN b[k] ELSE a[k]]

EmptyDict == [k \in {} |-> 0]

Range(s) == {s[i] : i \in DOMAIN s}

----------------------------------------------------------------------------
(* Detector classes: the inputs of register *)

\* Subclasses of Detector, and one class that is not a Detector.
DetectorClasses == {"DetA", "DetB", "DetAnon", "DetRaise"}
NotADetector == "NotADetector"
Classes == DetectorClasses \cup {NotADetector}

\* the class attribute `name` (Detector.name defaults to "")
ClsName ==
    [DetA |-> "a", DetB |-> "b", DetAnon |-> "", DetRaise |-> "ab", NotADetector |-> "zz"]

\* the class attribute `default_severity`
ClsDefaultSeverity ==
    [DetA |-> "warning", DetB |-> "error", DetAnon |-> "warning", DetRaise |-> "warning",
     NotADetector |-> "warning"]

issubclass(c) == c \in DetectorClasses

\* Names used as registry keys and in filters
KeyNames == {"a", "ab", "b"}
ArgNames == KeyNames \cup {""}

----------------------------------------------------------------------------
(* dict, as Python keeps it: insertion ordered, assignment to a present key *)
(* keeps its position                                                      *)

Entry(n, c) == [name |-> n, cls |-> c]

DictKeys(d) == {d[i].name : i \in DOMAIN d}
DictHas(d, k) == k \in DictKeys(d)
DictGet(d, k) == d[CHOOSE i \in DOMAIN d : d[i].name = k].cls

\* d[k] = v
DictSet(d, k, v) ==
    IF DictHas(d, k)
    THEN [i \in DOMAIN d |-> IF d[i].name = k THEN Entry(k, v) ELSE d[i]]
    ELSE Append(d, Entry(k, v))

\* (mutant) popitem(): the last entry goes, whatever the key
DictDelLast(d, k) == SubSeq(d, 1, Len(d) - 1)

\* del d[k] / d.pop(k), k present
DictDel(d, k) == SelectSeq(d, LAMBDA e : e.name # k)

\* (mutant) no sort: the dict's own order
Unsorted(s) == s

\* sorted(items, key=name): stable, ascending
RECURSIVE SortedByName(_)
SortedByName(s) ==
    IF s = <<>> THEN <<>>
    ELSE LET e    == s[Len(s)]
             rest == SortedByName(SubSeq(s, 1, Len(s) - 1))
             k    == Cardinality({i \in DOMAIN rest : ~StrLess(e.name, rest[i].name)})
         IN  SubSeq(rest, 1, k) \o <<e>> \o SubSeq(rest, k + 1, Len(rest))

----------------------------------------------------------------------------
(* DetectorRegistry: pure parts *)

\* (mutant) list(self._registry.items()): registration order
availableUnsorted(reg) == reg

\* available(): sorted(self._registry.items(), key=lambda item: item[0])
available(reg) == SortedByName(reg)

\* __iter__: iter(sorted(self._registry))
RegistryIter(reg) == [i \in DOMAIN reg |-> SortedByName(reg)[i].name]

\* set(include or []) ; include is Optional[Sequence[str]], given here as
\* None or Some(set of its elements)
FilterSet(f) == IF IsNone(f) THEN {} ELSE Val(f)

\* (mutant) exclude consulted only when no include is given
SelectedIncludeOnly(n, include_set, exclude_set) ==
    IF include_set # {} THEN n \in include_set ELSE n \notin exclude_set

\* the loop of instantiate_all: which entry survives the two filters
Selected(n, include_set, exclude_set) ==
    /\ ~(include_set # {} /\ n \notin include_set)
    /\ n \notin exclude_set

\* instantiate_all: the entries instantiated, in the order of available()
instantiate_all(reg, include, exclude) ==
    SelectSeq(available(reg),
              LAMBDA e : Selected(e.name, FilterSet(include), FilterSet(exclude)))

\* register: detector_name = name or detector_cls.name
ResolvedName(c, name) ==
    IF ~IsNone(name) /\ Truthy(Val(name)) THEN Val(name) ELSE ClsName[c]

\* (mutant) the overwrite flag is not consulted: a present name is replaced
RegisterOutcomeNoConflict(reg, c, name, overwrite) ==
    IF ~issubclass(c) THEN "TypeMismatch"
    ELSE IF ~Truthy(ResolvedName(c, name)) THEN "Validation"
    ELSE "ok"

\* (mutant) no `if not name: raise ValueError`
RegisterOutcomeNoValidation(reg, c, name, overwrite) ==
    IF ~issubclass(c) THEN "TypeMismatch"
    ELSE IF DictHas(reg, ResolvedName(c, name)) /\ ~overwrite THEN "Conflict"
    ELSE "ok"

\* register: the outcome, from the checks in the order the code makes them
RegisterOutcome(reg, c, name, overwrite) ==
    IF ~issubclass(c) THEN "TypeMismatch"
    ELSE IF ~Truthy(ResolvedName(c, name)) THEN "Validation"
    ELSE IF DictHas(reg, ResolvedName(c, name)) /\ ~overwrite THEN "Conflict"
    ELSE "ok"

\* register: the registry afterwards
RegisterEffect(reg, c, name, overwrite) ==
    IF RegisterOutcome(reg, c, name, overwrite) = "ok"
    THEN DictSet(reg, ResolvedName(c, name), c)
    ELSE reg

----------------------------------------------------------------------------
(* DetectorRegistry: operations *)

NoOp ==
    [op |-> "none", cls |-> "", name |-> None, overwrite |-> FALSE,
     include |-> None, exclude |-> None, outcome |-> "ok", value |-> <<>>]

\* registry.register(cls, name=name, overwrite=overwrite); also the
\* module-level register decorator, which passes no name
Register(c, name, overwrite) ==
    /\ registry' = RegisterEffect(registry, c, name, overwrite)
    /\ lastOp' = [NoOp EXCEPT !.op = "register", !.cls = c, !.name = name,
                              !.overwrite = overwrite,
                              !.outcome = RegisterOutcome(registry, c, name, overwrite)]

\* registry[key] = cls
SetItem(key, c) ==
    /\ registry' = RegisterEffect(registry, c, Some(key), FALSE)
    /\ lastOp' = [NoOp EXCEPT !.op = "setitem", !.cls = c, !.name = Some(key),
                              !.outcome = RegisterOutcome(registry, c, Some(key), FALSE)]

\* registry.unregister(name): self._registry.pop(name)
Unregister(n) ==
    /\ registry' = IF DictHas(registry, n) THEN DictDel(registry, n) ELSE registry
    /\ lastOp' = [NoOp EXCEPT !.op = "unregister", !.name = Some(n),
                              !.outcome = IF DictHas(registry, n) THEN "ok" ELSE "NotFound"]

\* del registry[key]
DelItem(n) ==
    /\ registry' = IF DictHas(registry, n) THEN DictDel(registry, n) ELSE registry
    /\ lastOp' = [NoOp EXCEPT !.op = "delitem", !.name = Some(n),
                              !.outcome = IF DictHas(registry, n) THEN "ok" ELSE "NotFound"]

\* registry.create(name): one instance of the class stored under name
Create(n) ==
    /\ registry' = registry
    /\ lastOp' = [NoOp EXCEPT !.op = "create", !.name = Some(n),
                              !.outcome = IF DictHas(registry, n) THEN "ok" ELSE "NotFound",
                              !.value = IF DictHas(registry, n)
                                        THEN <<Entry(n, DictGet(registry, n))>> ELSE <<>>]

\* registry.available()
Available ==
    /\ registry' = registry
    /\ lastOp' = [NoOp EXCEPT !.op = "available", !.value = available(registry)]

\* list(registry)
Iterate ==
    /\ registry' = registry
    /\ lastOp' = [NoOp EXCEPT !.op = "iter", !.value = RegistryIter(registry)]

\* registry.instantiate_all(include=include, exclude=exclude)
InstantiateAll(include, exclude) ==
    /\ registry' = registry
    /\ lastOp' = [NoOp EXCEPT !.op = "instantiate_all", !.include = include,
                              !.exclude = exclude,
                              !.value = instantiate_all(registry, include, exclude)]

\* the include and exclude arguments tried: absent, empty, registered and
\* unregistered names
Includes == {None, Some({}), Some({"a"}), Some({"a", "ab"}), Some({"zz"}), Some({"ab", "zz"})}
Excludes == {None, Some({}), Some({"ab"}), Some({"a", "zz"})}

----------------------------------------------------------------------------
(* Tracer *)

\* The Tracer heap as one value, so that a call is a function on it.
Heap == [tracers |-> tracers, buffers |-> buffers, locks |-> locks, sinkLog |-> sinkLog]

SetHeap(H) ==
    /\ tracers' = H.tracers
    /\ buffers' = H.buffers
    /\ locks' = H.locks
    /\ sinkLog' = H.sinkLog

SetHeapInit(H) ==
    /\ tracers = H.tracers
    /\ buffers = H.buffers
    /\ locks = H.locks
    /\ sinkLog = H.sinkLog

\* TraceEvent(timestamp, event, data)
TraceEvent(ts, event, data) == [timestamp |-> ts, event |-> event, data |-> data]

\* (mutant) `_events or []`: an empty list given is replaced by a new one
TracerInitFreshIfEmpty(H, sink, clock, events_arg, context_arg, lock_arg) ==
    LET fresh == IsNone(events_arg) \/ H.buffers[Val(events_arg)] = <<>>
        bufs  == IF fresh THEN Append(H.buffers, <<>>) ELSE H.buffers
        lks   == IF IsNone(lock_arg) THEN Append(H.locks, 0) ELSE H.locks
        t     == [context |-> IF IsNone(context_arg) THEN EmptyDict ELSE Val(context_arg),
                  events  |-> IF fresh THEN Len(bufs) ELSE Val(events_arg),
                  lock    |-> IF IsNone(lock_arg) THEN Len(lks) ELSE Val(lock_arg),
                  sink    |-> sink,
                  clock   |-> clock]
    IN  [H EXCEPT !.tracers = Append(H.tracers, t), !.buffers = bufs, !.locks = lks]

\* Tracer.__init__: the new object is appended to the heap; a list and a lock
\* are created unless given (`_events if _events is not None else []`,
\* `_context if _context is not None else {}`, `_lock or threading.Lock()`;
\* a Lock object is always truthy)
TracerInit(H, sink, clock, events_arg, context_arg, lock_arg) ==
    LET bufs == IF IsNone(events_arg) THEN Append(H.buffers, <<>>) ELSE H.buffers
        lks  == IF IsNone(lock_arg) THEN Append(H.locks, 0) ELSE H.locks
        t    == [context |-> IF IsNone(context_arg) THEN EmptyDict ELSE Val(context_arg),
                 events  |-> IF IsNone(events_arg) THEN Len(bufs) ELSE Val(events_arg),
                 lock    |-> IF IsNone(lock_arg) THEN Len(lks) ELSE Val(lock_arg),
                 sink    |-> sink,
                 clock   |-> clock]
    IN  [H EXCEPT !.tracers = Append(H.tracers, t), !.buffers = bufs, !.locks = lks]

\* the handle of the object the last constructor call made
Newest(H) == Len(H.tracers)

\* child(**context): merged_context = {**self._context, **context}
ChildContext(parent_context, context) == Merge(parent_context, context)

\* (mutant) the child is made without the parent's sink
childWithoutSink(H, h, context) ==
    LET p == H.tracers[h]
    IN  TracerInit(H, "none", p.clock, Some(p.events),
                   Some(ChildContext(p.context, context)), Some(p.lock))

\* (mutant) self._context.update(context): the parent's own dict is merged into
childUpdatingParent(H, h, context) ==
    LET p  == H.tracers[h]
        H1 == [H EXCEPT !.tracers[h].context = ChildContext(p.context, context)]
    IN  TracerInit(H1, p.sink, p.clock, Some(p.events),
                   Some(ChildContext(p.context, context)), Some(p.lock))

\* child(**context): a new Tracer sharing sink, clock, list and lock
child(H, h, context) ==
    LET p == H.tracers[h]
    IN  TracerInit(H, p.sink, p.clock, Some(p.events),
                   Some(ChildContext(p.context, context)), Some(p.lock))

\* (mutant) {**data, **self._context}: the context wins
PayloadContextWins(context, data) == Merge(data, context)

\* emit: payload = {**self._context, **data}
Payload(context, data) == Merge(context, data)

\* (mutant) insert(0, trace_event)
PrependEvent(H, h, ev) ==
    [H EXCEPT !.buffers[H.tracers[h].events] = <<ev>> \o @]

\* emit: self._events.append(trace_event)
AppendEvent(H, h, ev) ==
    [H EXCEPT !.buffers[H.tracers[h].events] = Append(@, ev)]

\* emit: `if sink is not None: sink(trace_event)`; a sink keeps what it is
\* given ("record"), and the re-entrant one ("reemit") then emits an event of
\* its own
CallSink(H, sink, ev) ==
    IF sink # "none" THEN [H EXCEPT !.sinkLog = Append(@, ev)] ELSE H

\* emit(event, **data) run by one thread without interruption; ts is the
\* reading of self._clock()
emit(H, h, event, data, ts) ==
    LET ev == TraceEvent(ts, event, Payload(H.tracers[h].context, data))
    IN  CallSink(AppendEvent(H, h, ev), H.tracers[h].sink, ev)

\* span(name, **context): self.child(span=name, **context); a keyword given
\* twice is a TypeError of the call
SpanKwargsOk(context) == "span" \notin DOMAIN context
SpanContext(name, context) == Merge([span |-> name], context)

\* (mutant) no try/finally: span.end follows the yield only when the body
\* falls off its end
FinallyRunsOnlyNormal(how) == how = "normal"

\* span: the try/finally around the yield runs the finally clause however
\* the body leaves ("normal", "return", "raise")
FinallyRuns(how) == TRUE

\* (mutant) the child is made and yielded, span.start is not emitted
SpanEnterNoStart(H, h, name, context, ts) == child(H, h, SpanContext(name, context))

\* span, up to the yield: the child is made and span.start emitted on it
SpanEnter(H, h, name, context, ts) ==
    LET H1 == child(H, h, SpanContext(name, context))
    IN  emit(H1, Newest(H1), "span.start", EmptyDict, ts)

\* span, after the yield: span.end emitted on the span's tracer
SpanExit(H, s, how, ts) ==
    IF FinallyRuns(how) THEN emit(H, s, "span.end", EmptyDict, ts) ELSE H

\* events(): list(self._events)
events(H, h) == H.buffers[H.tracers[h].events]

\* the root tracer of a family: Tracer(sink, clock=..., _context=...)
RootHeap(sink, context_arg) ==
    TracerInit([tracers |-> <<>>, buffers |-> <<>>, locks |-> <<>>, sinkLog |-> <<>>],
               sink, "clock", None, context_arg, None)

Sinks == {"none", "record"}

----------------------------------------------------------------------------
(* Issue and Detector *)

Issue(message, path, detector, severity, line, column, details) ==
    [message |-> message, path |-> path, detector |-> detector, severity |-> severity,
     line |-> line, column |-> column, details |-> details]

\* (mutant) `if self.line:`, `if self.column:`: truthiness, not `is not None`
to_dictTruthy(issue) ==
    LET payload == [detector |-> issue.detector, message |-> issue.message,
                    path |-> issue.path, severity |-> issue.severity]
        line    == IF ~IsNone(issue.line) /\ Val(issue.line) # 0
                   THEN [line |-> Val(issue.line)] ELSE EmptyDict
        column  == IF ~IsNone(issue.column) /\ Val(issue.column) # 0
                   THEN [column |-> Val(issue.column)] ELSE EmptyDict
        details == IF issue.details # EmptyDict THEN [details |-> issue.details] ELSE EmptyDict
    IN  Merge(Merge(Merge(payload, line), column), details)

\* Issue.to_dict
to_dict(issue) ==
    LET payload == [detector |-> issue.detector, message |-> issue.message,
                    path |-> issue.path, severity |-> issue.severity]
        line    == IF ~IsNone(issue.line) THEN [line |-> Val(issue.line)] ELSE EmptyDict
        column  == IF ~IsNone(issue.column) THEN [column |-> Val(issue.column)] ELSE EmptyDict
        details == IF issue.details # EmptyDict THEN [details |-> issue.details] ELSE EmptyDict
    IN  Merge(Merge(Merge(payload, line), column), details)

\* What detect(root) of each class produces, in order: Issues, a value that
\* is not an Issue ("other"), or an error raised by detect ("raise").
Yield(i) == [kind |-> "issue", issue |-> i]
NotAnIssue == [kind |-> "other", issue |-> Issue("", "", "", "", None, None, EmptyDict)]
DetectRaises == [kind |-> "raise", issue |-> Issue("", "", "", "", None, None, EmptyDict)]

DetectScript ==
    [DetA     |-> <<Yield(Issue("m1", "file.py", "", "", None, None, EmptyDict))>>,
     DetB     |-> <<Yield(Issue("m2", "q.py", "x", "info", Some(3), None, EmptyDict)),
                    Yield(Issue("m3", "q.py", "", "info", Some(0), Some(5), [k |-> "v"]))>>,
     DetAnon  |-> <<Yield(Issue("m4", "r.py", "", "", None, None, EmptyDict)),
                    NotAnIssue,
                    Yield(Issue("m5", "r.py", "", "", None, None, EmptyDict))>>,
     DetRaise |-> <<Yield(Issue("m6", "s.py", "y", "", None, Some(1), EmptyDict)),
                    DetectRaises>>]

\* (mutant) detector and severity set whether blank or not
NormalizeAlways(c, issue) ==
    [issue EXCEPT !.detector = ClsName[c], !.severity = ClsDefaultSeverity[c]]

\* Detector.run: `if not issue.detector: ...`, `if not issue.severity: ...`
Normalize(c, issue) ==
    [issue EXCEPT !.detector = IF ~Truthy(@) THEN ClsName[c] ELSE @,
                  !.severity = IF ~Truthy(@) THEN ClsDefaultSeverity[c] ELSE @]

\* instantiate_all with tracer_factory = lambda name: self.tracer.child(detector=name):
\* one instance per entry, each with its own child of `parent`
RECURSIVE InstantiateWired(_, _, _)
InstantiateWired(H, parent, entries) ==
    IF entries = <<>> THEN [heap |-> H, detectors |-> <<>>]
    ELSE LET H1   == child(H, parent, [detector |-> Head(entries).name])
             rest == InstantiateWired(H1, parent, Tail(entries))
         IN  [heap |-> rest.heap,
              detectors |-> <<[cls |-> Head(entries).cls, tracer |-> Newest(H1)]>>
                            \o rest.detectors]

----------------------------------------------------------------------------
(* RepoSurgeon.run, one call, step by step.  The orchestrator's tracer is    *)
(* tracer 1.                                                               *)

RunIdle(root_exists) ==
    [pc |-> "idle", root_exists |-> root_exists, include |-> None, exclude |-> None,
     detectors |-> <<>>, i |-> 0, pos |-> 0, scan |-> 0, span |-> 0,
     issues |-> <<>>, error |-> "", result |-> None, pending |-> None]

\* (mutant) a failing detector is set aside and the loop goes on
NextPcIsolating(error, i, n) == IF i = n THEN "complete" ELSE "start"

\* where control goes when detector i of n has been drained or has failed:
\* nothing in run catches the failure, so it leaves the loop and the with
\* block; otherwise the next detector, or the end of the loop
NextPc(error, i, n) ==
    IF error # "" THEN "scan_exit"
    ELSE IF i = n THEN "complete"
    ELSE "start"

\* run(include=..., exclude=...): detectors = registry.instantiate_all(...); issues = []
RunCall(include, exclude) ==
    /\ run.pc = "idle"
    /\ LET w == InstantiateWired(Heap, 1, instantiate_all(registry, include, exclude))
       IN  /\ SetHeap(w.heap)
           /\ run' = [run EXCEPT !.pc = "scan_enter", !.include = include,
                                 !.exclude = exclude, !.detectors = w.detectors]
    /\ UNCHANGED <<regVars, now, threadVars>>

\* with self.tracer.span("scan", root=str(self.root)) as tracer:
ScanSpanEnter ==
    /\ run.pc = "scan_enter"
    /\ LET H1 == SpanEnter(Heap, 1, "scan", [root |-> "/repo"], now)
       IN  /\ SetHeap(H1)
           /\ run' = [run EXCEPT !.scan = Newest(H1), !.i = 1,
                                 !.pc = IF run.detectors = <<>> THEN "complete" ELSE "start"]
    /\ UNCHANGED <<regVars, now, threadVars>>

\* (mutant) the with statement entered before the root is looked up: the
\* span opens, the error is raised inside it and the span closes
DetectorRunStartSpanFirst(H, d, root_exists, ts) ==
    LET H1 == SpanEnter(H, d.tracer, "detector", [name |-> ClsName[d.cls]], ts)
    IN  IF ~root_exists
        THEN [heap |-> SpanExit(H1, Newest(H1), "raise", ts), error |-> "NotFound", span |-> 0]
        ELSE [heap |-> H1, error |-> "", span |-> Newest(H1)]

\* Detector.run, up to the for loop: `if not root.exists(): raise
\* FileNotFoundError(root)`, then `with self.tracer.span("detector", name=self.name):`
DetectorRunStart(H, d, root_exists, ts) ==
    IF ~root_exists
    THEN [heap |-> H, error |-> "NotFound", span |-> 0]
    ELSE LET H1 == SpanEnter(H, d.tracer, "detector", [name |-> ClsName[d.cls]], ts)
         IN  [heap |-> H1, error |-> "", span |-> Newest(H1)]

\* for detector in detectors: first step of detector.run(self.root); the root
\* is looked up, then the detector span is opened on the detector's tracer
DetectorStart ==
    /\ run.pc = "start"
    /\ LET r == DetectorRunStart(Heap, run.detectors[run.i], run.root_exists, now)
       IN  /\ SetHeap(r.heap)
           /\ IF r.error # ""
              THEN run' = [run EXCEPT !.error = r.error,
                                      !.pc = NextPc(r.error, run.i, Len(run.detectors)),
                                      !.i = IF NextPc(r.error, run.i, Len(run.detectors)) = "start"
                                            THEN @ + 1 ELSE @]
              ELSE run' = [run EXCEPT !.span = r.span, !.pos = 1, !.pc = "detect"]
    /\ UNCHANGED <<regVars, now, threadVars>>

\* for issue in self.detect(root): one round of the loop, up to the yield;
\* detect ends, raises, or produces a value, which is checked, normalised
\* and traced
DetectStep ==
    /\ run.pc = "detect"
    /\ LET d      == run.detectors[run.i]
           script == DetectScript[d.cls]
       IN  IF run.pos > Len(script)
           THEN /\ run' = [run EXCEPT !.pc = "det_exit"]
                /\ UNCHANGED <<tracers, buffers, locks, sinkLog>>
           ELSE IF script[run.pos].kind = "raise"
           THEN /\ run' = [run EXCEPT !.error = "DetectError", !.pc = "det_exit"]
                /\ UNCHANGED <<tracers, buffers, locks, sinkLog>>
           ELSE IF script[run.pos].kind # "issue"
           THEN /\ run' = [run EXCEPT !.error = "TypeMismatch", !.pc = "det_exit"]
                /\ UNCHANGED <<tracers, buffers, locks, sinkLog>>
           ELSE LET issue == Normalize(d.cls, script[run.pos].issue)
                IN  /\ SetHeap(emit(Heap, d.tracer, "issue", to_dict(issue), now))
                    /\ run' = [run EXCEPT !.pending = Some(issue), !.pc = "yield"]
    /\ UNCHANGED <<regVars, now, threadVars>>

\* yield issue: the consumer, RepoSurgeon.run, appends it (issues.append(issue))
\* and asks for the next
YieldStep ==
    /\ run.pc = "yield"
    /\ run' = [run EXCEPT !.issues = Append(@, Val(run.pending)), !.pending = None,
                          !.pos = @ + 1, !.pc = "detect"]
    /\ UNCHANGED <<regVars, tracerVars, threadVars>>

\* the detector span closes; the loop goes on, or the failure goes up
DetectorSpanExit ==
    /\ run.pc = "det_exit"
    /\ SetHeap(SpanExit(Heap, run.span, IF run.error = "" THEN "normal" ELSE "raise", now))
    /\ run' = [run EXCEPT !.span = 0, !.pos = 0,
                          !.pc = NextPc(run.error, run.i, Len(run.detectors)),
                          !.i = IF NextPc(run.error, run.i, Len(run.detectors)) = "start"
                                THEN @ + 1 ELSE @]
    /\ UNCHANGED <<regVars, now, threadVars>>

\* tracer.emit("scan.complete", issues=len(issues))
ScanComplete ==
    /\ run.pc = "complete"
    /\ SetHeap(emit(Heap, run.scan, "scan.complete", [issues |-> Len(run.issues)], now))
    /\ run' = [run EXCEPT !.pc = "scan_exit"]
    /\ UNCHANGED <<regVars, now, threadVars>>

\* the scan span closes; run returns the issues, or the failure reaches the caller
ScanSpanExit ==
    /\ run.pc = "scan_exit"
    /\ SetHeap(SpanExit(Heap, run.scan, IF run.error = "" THEN "normal" ELSE "raise", now))
    /\ run' = [run EXCEPT !.pc = "done",
                          !.result = IF run.error = "" THEN Some(run.issues) ELSE None]
    /\ UNCHANGED <<regVars, now, threadVars>>

----------------------------------------------------------------------------
(* Threads using one tracer family (SpecTracer).  Every call a thread makes  *)
(* is numbered, and the data it passes names the thread and the number:     *)
(* emit("e", who=t, n=k), span("op", who=t, n=k).  A thread works on the    *)
(* tracer it holds (cur: the root, or the child it made last) and on the    *)
(* tracer of its innermost open span.                                      *)

Threads == {1, 2}

\* calls made by all threads together, and the last reading of the clock
MaxOps == 2
MaxClock == 1

NoEvent == TraceEvent(0, "", EmptyDict)
NoChild == [parent |-> 0, context |-> EmptyDict, result |-> 0, outcome |-> ""]

ThIdle ==
    [pc |-> "idle", tracer |-> 0, data |-> EmptyDict, ev |-> NoEvent, sink |-> "none",
     then |-> "", how |-> "", cur |-> 1, spans |-> <<>>, left |-> <<>>, ops |-> 0,
     snapshot |-> None, made |-> NoChild, outer |-> None, raised |-> FALSE]

OpsMade == th[1].ops + th[2].ops

\* a thread may make another call
CanCall(t) == th[t].pc = "idle" /\ OpsMade < MaxOps

\* the tracers thread t works on
Held(t) ==
    {th[t].cur} \cup
    (IF th[t].spans = <<>> THEN {} ELSE {th[t].spans[Len(th[t].spans)].tracer})

\* the frame of a call that begins: what the last call left is dropped
Fresh(f) == [f EXCEPT !.ops = @ + 1, !.snapshot = None, !.made = NoChild, !.raised = FALSE]

\* emit, up to the with statement: the event is built from the context, the
\* data and the clock
EmitBegin(H, f, h, event, data, then, how) ==
    [f EXCEPT !.pc = "acquire", !.tracer = h, !.data = data, !.then = then, !.how = how,
              !.ev = TraceEvent(now, event, Payload(H.tracers[h].context, data))]

\* where the thread is once its emit has returned
EmitDone(f) ==
    LET g == [f EXCEPT !.pc = "idle", !.tracer = 0, !.data = EmptyDict, !.ev = NoEvent,
                       !.sink = "none", !.then = "", !.how = ""]
    IN  IF f.then = "enter"
        THEN [g EXCEPT !.spans = Append(@, [tracer |-> f.tracer, n |-> f.ev.data.n])]
        ELSE IF f.then = "exit"
        THEN [g EXCEPT !.spans = SubSeq(@, 1, Len(@) - 1),
                       !.left = Append(@, [n |-> f.ev.data.n, how |-> f.how])]
        ELSE g

\* tracer.emit("e", who=t, n=k, ...)
EmitCall(t, h, extra) ==
    /\ CanCall(t) /\ h \in Held(t)
    /\ LET data == Merge([who |-> t, n |-> th[t].ops + 1], extra)
           f    == EmitBegin(Heap, Fresh(th[t]), h, "e", data, "plain", "")
       IN  /\ th' = [th EXCEPT ![t] = f]
           /\ calls' = [calls EXCEPT ![t] = Append(@, f.ev)]
    /\ UNCHANGED <<regVars, tracerVars, run>>

\* tracer = tracer.child(**context)
ChildCall(t, h, context) ==
    /\ CanCall(t) /\ h \in Held(t)
    /\ LET H1 == child(Heap, h, context)
       IN  /\ SetHeap(H1)
           /\ th' = [th EXCEPT ![t] =
                        [Fresh(th[t]) EXCEPT !.cur = Newest(H1),
                                             !.made = [parent |-> h, context |-> context,
                                                       result |-> Newest(H1),
                                                       outcome |-> "child"]]]
    /\ UNCHANGED <<regVars, now, run, calls>>

\* with tracer.span("op", who=t, n=k, ...): up to the emit of span.start
SpanCall(t, h, extra) ==
    /\ CanCall(t) /\ h \in Held(t)
    /\ LET context == Merge([who |-> t, n |-> th[t].ops + 1], extra)
           H1      == child(Heap, h, SpanContext("op", context))
           made    == [parent |-> h, context |-> context, result |-> 0, outcome |-> ""]
       IN  IF ~SpanKwargsOk(context)
           THEN /\ th' = [th EXCEPT ![t] =
                             [Fresh(th[t]) EXCEPT !.made = [made EXCEPT !.outcome = "TypeError"]]]
                /\ UNCHANGED <<tracers, buffers, locks, sinkLog, calls>>
           ELSE /\ SetHeap(H1)
                /\ LET f == EmitBegin(H1, Fresh(th[t]), Newest(H1),
                                      "span.start", EmptyDict, "enter", "")
                   IN  /\ th' = [th EXCEPT ![t] =
                                    [f EXCEPT !.made = [made EXCEPT !.result = Newest(H1),
                                                                    !.outcome = "span"]]]
                       /\ calls' = [calls EXCEPT ![t] = Append(@, f.ev)]
    /\ UNCHANGED <<regVars, now, run>>

\* the body of the innermost open span ends (falls off the end, returns or
\* raises): the finally clause emits span.end on the span's tracer
SpanLeave(t, how) ==
    /\ th[t].pc = "idle" /\ th[t].spans # <<>>
    /\ LET top == th[t].spans[Len(th[t].spans)]
       IN  IF FinallyRuns(how)
           THEN LET f == EmitBegin(Heap, th[t], top.tracer, "span.end", EmptyDict, "exit", how)
                IN  /\ th' = [th EXCEPT ![t] = f]
                    /\ calls' = [calls EXCEPT ![t] = Append(@, f.ev)]
           ELSE /\ th' = [th EXCEPT ![t].spans = SubSeq(@, 1, Len(@) - 1),
                                    ![t].left = Append(@, [n |-> top.n, how |-> how])]
                /\ UNCHANGED calls
    /\ UNCHANGED <<regVars, tracerVars, run>>

\* emit: `with self._lock:` entered; a Lock is not reentrant
Acquire(t) ==
    /\ th[t].pc = "acquire"
    /\ locks[tracers[th[t].tracer].lock] = 0
    /\ locks' = [locks EXCEPT ![tracers[th[t].tracer].lock] = t]
    /\ th' = [th EXCEPT ![t].pc = "locked"]
    /\ UNCHANGED <<regVars, tracers, buffers, sinkLog, now, run, calls>>

\* (mutant) `if sink is not None: sink(trace_event)` indented into the with block
SinkInsideLockYes == TRUE

\* emit: whether sink(trace_event) is called inside `with self._lock:`; it
\* comes after the block
SinkInsideLock == FALSE

\* emit: self._events.append(trace_event); sink = self._sink; the with block
\* is left and the lock released; without a sink emit returns
AppendRelease(t) ==
    /\ th[t].pc = "locked"
    /\ LET H1   == AppendEvent(Heap, th[t].tracer, th[t].ev)
           l    == tracers[th[t].tracer].lock
           held == SinkInsideLock /\ tracers[th[t].tracer].sink # "none"
       IN  SetHeap([H1 EXCEPT !.locks[l] = IF held THEN t ELSE 0])
    /\ th' = [th EXCEPT ![t] =
                 IF tracers[th[t].tracer].sink = "none" THEN EmitDone(th[t])
                 ELSE [th[t] EXCEPT !.pc = "sink", !.sink = tracers[th[t].tracer].sink]]
    /\ UNCHANGED <<regVars, now, run, calls>>

\* the event the re-entrant sink emits, on the root tracer, for the event it is given
EchoData(ev) == [who |-> ev.data.who, n |-> ev.data.n]
SinkReemits(sink, ev) == sink = "reemit" /\ ev.event # "sink.echo"

\* emit: sink(trace_event) is called.  The sink is now running; the
\* re-entrant sink, given an event that is not its own, calls
\* root.emit("sink.echo", ...) from inside, the emit that called it waiting
SinkStep(t) ==
    /\ th[t].pc = "sink"
    /\ SetHeap(CallSink(Heap, th[t].sink, th[t].ev))
    /\ IF SinkReemits(th[t].sink, th[t].ev)
       THEN LET waiting == [ev |-> th[t].ev, tracer |-> th[t].tracer]
                f == [th[t] EXCEPT !.pc = "acquire", !.tracer = 1,
                                   !.outer = Some(waiting),
                                   !.ev = TraceEvent(now, "sink.echo",
                                              Payload(tracers[1].context, EchoData(th[t].ev)))]
            IN  /\ th' = [th EXCEPT ![t] = f]
                /\ calls' = [calls EXCEPT ![t] = Append(@, f.ev)]
       ELSE /\ th' = [th EXCEPT ![t].pc = "in_sink"]
            /\ UNCHANGED calls
    /\ UNCHANGED <<regVars, now, run>>

\* (mutant) try: sink(trace_event) / except Exception: pass
AfterSinkRaiseSwallowed(f) == EmitDone(f)

\* where the thread is when the sink has raised: nothing in emit catches, so
\* the error leaves emit; out of span it leaves before the yield (the body
\* is not entered) or from the finally clause (the body has been left)
AfterSinkRaise(f) ==
    [EmitDone([f EXCEPT !.then = IF @ = "enter" THEN "plain" ELSE @]) EXCEPT !.raised = TRUE]

\* the sink returns, or raises (the failing sink, "raise", always does).  An
\* emit made from inside a sink returns into that sink, which is still
\* running; otherwise emit returns the event or lets the error through
SinkReturn(t) ==
    /\ th[t].pc = "in_sink"
    /\ IF ~IsNone(th[t].outer)
       THEN /\ th' = [th EXCEPT ![t].ev = Val(th[t].outer).ev,
                                ![t].tracer = Val(th[t].outer).tracer,
                                ![t].outer = None]
            /\ UNCHANGED locks
       ELSE /\ th' = [th EXCEPT ![t] = IF th[t].sink = "raise" THEN AfterSinkRaise(th[t])
                                       ELSE EmitDone(th[t])]
            /\ locks' = [locks EXCEPT ![tracers[th[t].tracer].lock] =
                                         IF SinkInsideLock THEN 0 ELSE @]
    /\ UNCHANGED <<regVars, tracers, buffers, sinkLog, now, run, calls>>

\* tracer.events(): up to the with statement
EventsCall(t, h) ==
    /\ CanCall(t) /\ h \in Held(t)
    /\ th' = [th EXCEPT ![t] = [Fresh(th[t]) EXCEPT !.pc = "snap_acquire", !.tracer = h]]
    /\ UNCHANGED <<regVars, tracerVars, run, calls>>

\* events: `with self._lock:` entered
SnapAcquire(t) ==
    /\ th[t].pc = "snap_acquire"
    /\ locks[tracers[th[t].tracer].lock] = 0
    /\ locks' = [locks EXCEPT ![tracers[th[t].tracer].lock] = t]
    /\ th' = [th EXCEPT ![t].pc = "snap_copy"]
    /\ UNCHANGED <<regVars, tracers, buffers, sinkLog, now, run, calls>>

\* events: return list(self._events), the lock released on the way out
SnapCopy(t) ==
    /\ th[t].pc = "snap_copy"
    /\ locks' = [locks EXCEPT ![tracers[th[t].tracer].lock] = 0]
    /\ th' = [th EXCEPT ![t].pc = "idle", ![t].tracer = 0,
                        ![t].snapshot = Some(events(Heap, th[t].tracer))]
    /\ UNCHANGED <<regVars, tracers, buffers, sinkLog, now, run, calls>>

\* the clock moves on; its readings never decrease
Tick ==
    /\ now < MaxClock
    /\ now' = now + 1
    /\ UNCHANGED <<regVars, tracers, buffers, locks, sinkLog, run, threadVars>>

----------------------------------------------------------------------------
(* Specifications *)

\* Every dict a DetectorRegistry can hold: register stores Detector
\* subclasses under non-empty names, each name once, in any insertion order.
RegistryStates ==
    {r \in UNION {[1..n -> {Entry(k, c) : k \in KeyNames, c \in DetectorClasses}] :
                  n \in 0..Cardinality(KeyNames)} :
        \A i, j \in DOMAIN r : r[i].name = r[j].name => i = j}

InitQuiet ==
    /\ lastOp = NoOp
    /\ now = 0
    /\ th = [t \in Threads |-> ThIdle]
    /\ calls = [t \in Threads |-> <<>>]

\* a new, empty DetectorRegistry; the tracer and the scan are not used
InitRegistry ==
    /\ registry = <<>>
    /\ SetHeapInit(RootHeap("none", None))
    /\ run = RunIdle(TRUE)
    /\ InitQuiet

NextRegistry ==
    \/ \E c \in Classes, n \in {None} \cup {Some(k) : k \in ArgNames}, o \in BOOLEAN :
          Register(c, n, o) /\ UNCHANGED <<tracerVars, run, threadVars>>
    \/ \E k \in ArgNames, c \in Classes :
          SetItem(k, c) /\ UNCHANGED <<tracerVars, run, threadVars>>
    \/ \E k \in KeyNames : Unregister(k) /\ UNCHANGED <<tracerVars, run, threadVars>>
    \/ \E k \in KeyNames : DelItem(k) /\ UNCHANGED <<tracerVars, run, threadVars>>
    \/ \E k \in KeyNames : Create(k) /\ UNCHANGED <<tracerVars, run, threadVars>>
    \/ Available /\ UNCHANGED <<tracerVars, run, threadVars>>
    \/ Iterate /\ UNCHANGED <<tracerVars, run, threadVars>>
    \/ \E i \in Includes, e \in Excludes :
          InstantiateAll(i, e) /\ UNCHANGED <<tracerVars, run, threadVars>>

SpecRegistry == InitRegistry /\ [][NextRegistry]_vars

\* the filters given to RepoSurgeon.run
RunIncludes == {None, Some({}), Some({"a", "ab"}), Some({"ab", "zz"})}
RunExcludes == {None, Some({"ab"}), Some({"a", "zz"})}

\* RepoSurgeon(root, tracer=Tracer(sink)) over a registry in any of its states;
\* the root directory exists or not
Init ==
    /\ registry \in RegistryStates
    /\ \E sink \in Sinks : SetHeapInit(RootHeap(sink, None))
    /\ \E e \in BOOLEAN : run = RunIdle(e)
    /\ InitQuiet

Next ==
    \/ \E i \in RunIncludes, e \in RunExcludes : RunCall(i, e)
    \/ ScanSpanEnter
    \/ DetectorStart
    \/ DetectStep
    \/ YieldStep
    \/ DetectorSpanExit
    \/ ScanComplete
    \/ ScanSpanExit

Spec == Init /\ [][Next]_vars

\* keyword arguments the threads pass besides who and n
EmitExtras == {[x |-> 2]}
ChildContexts == {[x |-> 1]}
SpanExtras == {EmptyDict, [span |-> "y"]}

\* Tracer(sink), or Tracer(sink, _context={"a": 1}); nothing emitted yet
InitTracer ==
    /\ registry = <<>>
    /\ lastOp = NoOp
    /\ \E c \in {None, Some([a |-> 1])} : SetHeapInit(RootHeap("none", c))
    /\ now = 0
    /\ run = RunIdle(TRUE)
    /\ th = [t \in Threads |-> ThIdle]
    /\ calls = [t \in Threads |-> <<>>]

NextTracer ==
    \/ \E t \in Threads, h \in DOMAIN tracers, x \in EmitExtras : EmitCall(t, h, x)
    \/ \E t \in Threads, h \in DOMAIN tracers, c \in ChildContexts : ChildCall(t, h, c)
    \/ \E t \in Threads, h \in DOMAIN tracers, x \in SpanExtras : SpanCall(t, h, x)
    \/ \E t \in Threads, how \in {"normal", "return", "raise"} : SpanLeave(t, how)
    \/ \E t \in Threads : Acquire(t)
    \/ \E t \in Threads : AppendRelease(t)
    \/ \E t \in Threads, h \in DOMAIN tracers : EventsCall(t, h)
    \/ \E t \in Threads : SnapAcquire(t)
    \/ \E t \in Threads : SnapCopy(t)

SpecTracer == InitTracer /\ [][NextTracer]_vars

\* Tracer(sink) with a recording sink, or Tracer(); nothing emitted yet
InitSink ==
    /\ registry = <<>>
    /\ lastOp = NoOp
    /\ \E sink \in Sinks : SetHeapInit(RootHeap(sink, None))
    /\ now = 0
    /\ run = RunIdle(TRUE)
    /\ th = [t \in Threads |-> ThIdle]
    /\ calls = [t \in Threads |-> <<>>]

NextSink ==
    \/ \E t \in Threads, h \in DOMAIN tracers, x \in EmitExtras : EmitCall(t, h, x)
    \/ \E t \in Threads, h \in DOMAIN tracers, c \in ChildContexts : ChildCall(t, h, c)
    \/ \E t \in Threads, h \in DOMAIN tracers : SpanCall(t, h, EmptyDict)
    \/ \E t \in Threads, how \in {"normal", "raise"} : SpanLeave(t, how)
    \/ \E t \in Threads : Acquire(t)
    \/ \E t \in Threads : AppendRelease(t)
    \/ \E t \in Threads : SinkStep(t)
    \/ \E t \in Threads : SinkReturn(t)

SpecSink == InitSink /\ [][NextSink]_vars

\* Tracer(clock=clock) with a clock that moves on between calls and never
\* goes back; no sink
InitClock ==
    /\ registry = <<>>
    /\ lastOp = NoOp
    /\ SetHeapInit(RootHeap("none", None))
    /\ now = 0
    /\ run = RunIdle(TRUE)
    /\ th = [t \in Threads |-> ThIdle]
    /\ calls = [t \in Threads |-> <<>>]

NextClock ==
    \/ \E t \in Threads, h \in DOMAIN tracers, x \in EmitExtras : EmitCall(t, h, x)
    \/ \E t \in Threads, h \in DOMAIN tracers : SpanCall(t, h, EmptyDict)
    \/ \E t \in Threads : SpanLeave(t, "normal")
    \/ \E t \in Threads : Acquire(t)
    \/ \E t \in Threads : AppendRelease(t)
    \/ Tick

SpecClock == InitClock /\ [][NextClock]_vars

\* Tracer(sink) with a sink that raises whenever it is called
InitSinkFails ==
    /\ registry = <<>>
    /\ lastOp = NoOp
    /\ SetHeapInit(RootHeap("raise", None))
    /\ now = 0
    /\ run = RunIdle(TRUE)
    /\ th = [t \in Threads |-> ThIdle]
    /\ calls = [t \in Threads |-> <<>>]

\* what a thread does next inside emit or events
ThreadStepAll(t) ==
    Acquire(t) \/ AppendRelease(t) \/ SinkStep(t) \/ SinkReturn(t)
    \/ SnapAcquire(t) \/ SnapCopy(t)

NextSinkFails ==
    \/ \E t \in Threads, h \in DOMAIN tracers, x \in EmitExtras : EmitCall(t, h, x)
    \/ \E t \in Threads, h \in DOMAIN tracers, c \in ChildContexts : ChildCall(t, h, c)
    \/ \E t \in Threads, h \in DOMAIN tracers : SpanCall(t, h, EmptyDict)
    \/ \E t \in Threads, h \in DOMAIN tracers : EventsCall(t, h)
    \/ \E t \in Threads : Acquire(t)
    \/ \E t \in Threads : AppendRelease(t)
    \/ \E t \in Threads : SinkStep(t)
    \/ \E t \in Threads : SinkReturn(t)
    \/ \E t \in Threads : SnapAcquire(t)
    \/ \E t \in Threads : SnapCopy(t)

\* a thread that can go on inside emit or events is scheduled in the end
SpecSinkFails ==
    InitSinkFails /\ [][NextSinkFails]_vars /\ \A t \in Threads : WF_vars(ThreadStepAll(t))

\* Tracer(sink) with the re-entrant sink: given an event that is not its own
\* it calls tracer.emit("sink.echo", ...) on the root
InitReentrant ==
    /\ registry = <<>>
    /\ lastOp = NoOp
    /\ SetHeapInit(RootHeap("reemit", None))
    /\ now = 0
    /\ run = RunIdle(TRUE)
    /\ th = [t \in Threads |-> ThIdle]
    /\ calls = [t \in Threads |-> <<>>]

\* what a thread does next inside emit
ThreadStep(t) == Acquire(t) \/ AppendRelease(t) \/ SinkStep(t) \/ SinkReturn(t)

NextReentrant ==
    \/ \E t \in Threads, h \in DOMAIN tracers, x \in EmitExtras : EmitCall(t, h, x)
    \/ \E t \in Threads, h \in DOMAIN tracers, c \in ChildContexts : ChildCall(t, h, c)
    \/ \E t \in Threads : Acquire(t)
    \/ \E t \in Threads : AppendRelease(t)
    \/ \E t \in Threads : SinkStep(t)
    \/ \E t \in Threads : SinkReturn(t)

\* a thread that can go on inside emit is scheduled in the end
SpecReentrant ==
    InitReentrant /\ [][NextReentrant]_vars /\ \A t \in Threads : WF_vars(ThreadStep(t))

----------------------------------------------------------------------------
(* Properties of the registry, checked under SpecRegistry *)

\* s comes strictly before t in lexicographic order: they agree up to some
\* position where s has ended and t has not, or where s has the smaller character
LexBefore(s, t) ==
    LET a == CodePoints[s]
        b == CodePoints[t]
    IN  \E k \in 1..Len(b) :
            /\ k - 1 <= Len(a)
            /\ \A i \in 1..(k - 1) : a[i] = b[i]
            /\ (k = Len(a) + 1 \/ a[k] < b[k])

StrictlyAscending(names) ==
    \A i, j \in DOMAIN names : i < j => LexBefore(names[i], names[j])

NamesOf(entries) == [i \in DOMAIN entries |-> entries[i].name]

\* the entries of a dict as a set, insertion order forgotten
EntrySet(d) == Range(d)

\* C5: whatever registrations and removals came before, available() and
\* iteration return exactly the registered names (available: with their
\* classes), in strictly ascending lexicographic order, hence without duplicates.
C5_EnumerationSorted ==
    /\ lastOp.op = "available" =>
          /\ StrictlyAscending(NamesOf(lastOp.value))
          /\ Range(lastOp.value) = EntrySet(registry)
    /\ lastOp.op = "iter" =>
          /\ StrictlyAscending(lastOp.value)
          /\ Range(lastOp.value) = DictKeys(registry)

\* three detectors registered in an order that is not the sorted one, then enumerated
C5_Witness ==
    /\ lastOp.op \in {"available", "iter"}
    /\ Len(registry) = 3
    /\ registry[1].name = "b" /\ registry[2].name = "ab" /\ registry[3].name = "a"

\* the names instantiate_all is to keep
Kept(reg, include, exclude) ==
    {n \in DictKeys(reg) :
        /\ IsNone(include) \/ Val(include) = {} \/ n \in Val(include)
        /\ IsNone(exclude) \/ n \notin Val(exclude)}

GivenName(op) ==
    IF IsNone(op.name) \/ Val(op.name) = "" THEN ClsName[op.cls] ELSE Val(op.name)

\* C7: registering a Detector class under a name already present fails with
\* Conflict and changes nothing when overwrite is false (item assignment
\* included: it never overwrites); with overwrite it succeeds, the class
\* stored under the name is the new one, every other entry and the set of
\* names are as before.
C7_DuplicateRegistration ==
    [][(/\ lastOp'.op \in {"register", "setitem"}
        /\ issubclass(lastOp'.cls)
        /\ DictHas(registry, GivenName(lastOp'))) =>
          IF lastOp'.overwrite
          THEN /\ lastOp'.outcome = "ok"
               /\ DictKeys(registry') = DictKeys(registry)
               /\ DictGet(registry', GivenName(lastOp')) = lastOp'.cls
               /\ \A k \in DictKeys(registry) \ {GivenName(lastOp')} :
                      DictGet(registry', k) = DictGet(registry, k)
          ELSE /\ lastOp'.outcome = "Conflict"
               /\ registry' = registry]_vars

\* registry[name] = cls was refused for a name that holds another class
C7_Witness ==
    /\ lastOp.op = "setitem"
    /\ lastOp.outcome = "Conflict"
    /\ DictHas(registry, GivenName(lastOp))
    /\ DictGet(registry, GivenName(lastOp)) # lastOp.cls

\* C8: unregister of a registered name removes that entry and no other;
\* unregister and create of a name that is not registered fail with NotFound
\* and change nothing.
C8_UnregisterCreate ==
    [][/\ lastOp'.op = "unregister" =>
            IF DictHas(registry, Val(lastOp'.name))
            THEN /\ lastOp'.outcome = "ok"
                 /\ EntrySet(registry') =
                       {e \in EntrySet(registry) : e.name # Val(lastOp'.name)}
                 /\ Len(registry') = Len(registry) - 1
            ELSE /\ lastOp'.outcome = "NotFound"
                 /\ registry' = registry
       /\ (lastOp'.op = "create" /\ ~DictHas(registry, Val(lastOp'.name))) =>
            /\ lastOp'.outcome = "NotFound"
            /\ lastOp'.value = <<>>
            /\ registry' = registry]_vars

\* the middle one of three entries was unregistered
C8_Witness ==
    /\ lastOp.op = "unregister"
    /\ lastOp.outcome = "ok"
    /\ NamesOf(registry) = <<"b", "a">>
    /\ lastOp.name = Some("ab")

----------------------------------------------------------------------------
(* Properties of RepoSurgeon.run, checked under Spec *)

\* the elements of a finite set of names as the one strictly ascending sequence
Ascending(S) ==
    CHOOSE s \in [1..Cardinality(S) -> S] : StrictlyAscending(s) /\ Range(s) = S

ClassAt(E, n) == (CHOOSE e \in E : e.name = n).cls

\* what is looked at in a trace event: its name, the span it belongs to, for
\* a span event the detector it is scoped to, for an issue event the issue's
\* message, for scan.complete the count
Shape(e) ==
    [event    |-> e.event,
     span     |-> IF "span" \in DOMAIN e.data THEN e.data.span ELSE "",
     detector |-> IF e.event \in {"span.start", "span.end"} /\ "detector" \in DOMAIN e.data
                  THEN e.data.detector ELSE "",
     message  |-> IF "message" \in DOMAIN e.data THEN e.data.message ELSE "",
     issues   |-> IF "issues" \in DOMAIN e.data THEN e.data.issues ELSE -1]

Shapes(evs) == [i \in DOMAIN evs |-> Shape(evs[i])]

SpanShape(event, span, detector) ==
    [event |-> event, span |-> span, detector |-> detector, message |-> "", issues |-> -1]

IssueShape(message) ==
    [event |-> "issue", span |-> "", detector |-> "", message |-> message, issues |-> -1]

CompleteShape(n) ==
    [event |-> "scan.complete", span |-> "scan", detector |-> "", message |-> "", issues |-> n]

\* the Issues detect of class c produces before it fails, if it fails
GoodPrefix(c) ==
    LET script == DetectScript[c]
        bad    == {i \in DOMAIN script : script[i].kind # "issue"}
    IN  IF bad = {} THEN Len(script)
        ELSE (CHOOSE i \in bad : \A j \in bad : i <= j) - 1

DetectFails(c) == GoodPrefix(c) < Len(DetectScript[c])

\* The scan as the specification describes it, over the registered entries
\* as a set E: detectors taken in ascending order of name, each drained
\* before the next, the first failure ending the scan.
RECURSIVE RefScan(_, _, _)
RefScan(names, E, root_exists) ==
    IF names = <<>> THEN [shapes |-> <<>>, messages |-> <<>>, ok |-> TRUE]
    ELSE IF ~root_exists THEN [shapes |-> <<>>, messages |-> <<>>, ok |-> FALSE]
    ELSE LET n    == Head(names)
             c    == ClassAt(E, n)
             msgs == [i \in 1..GoodPrefix(c) |-> DetectScript[c][i].issue.message]
             this == <<SpanShape("span.start", "detector", n)>>
                     \o [i \in DOMAIN msgs |-> IssueShape(msgs[i])]
                     \o <<SpanShape("span.end", "detector", n)>>
             rest == RefScan(Tail(names), E, root_exists)
         IN  IF DetectFails(c)
             THEN [shapes |-> this, messages |-> msgs, ok |-> FALSE]
             ELSE [shapes |-> this \o rest.shapes, messages |-> msgs \o rest.messages,
                   ok |-> rest.ok]

\* the reference scan of the call in progress
Ref == RefScan(Ascending(Kept(registry, run.include, run.exclude)),
               EntrySet(registry), run.root_exists)

RefTrace ==
    <<SpanShape("span.start", "scan", "")>> \o Ref.shapes
    \o (IF Ref.ok THEN <<CompleteShape(Len(Ref.messages))>> ELSE <<>>)
    \o <<SpanShape("span.end", "scan", "")>>

IsPrefix(s, t) == Len(s) <= Len(t) /\ s = SubSeq(t, 1, Len(s))

Messages(issues) == [i \in DOMAIN issues |-> issues[i].message]

\* the buffer of the orchestrator's tracer
ScanBuffer == events(Heap, 1)

\* C2: after a successful run the buffer holds scan span.start, then per
\* selected detector in ascending order its span.start, its issue events in
\* yield order and its span.end, then scan.complete with the number of
\* issues returned, then scan span.end; nothing else.
C2_SuccessTrace ==
    (run.pc = "done" /\ run.error = "") =>
        /\ ~IsNone(run.result)
        /\ Shapes(ScanBuffer) = RefTrace
        /\ Ref.ok
        /\ ScanBuffer[Len(ScanBuffer) - 1].data.issues = Len(Val(run.result))
        /\ (Len(run.detectors) = 1 /\ Len(Val(run.result)) = 1) =>
              [i \in 1..6 |-> ScanBuffer[i].event] =
                  <<"span.start", "span.start", "issue", "span.end", "scan.complete", "span.end">>

\* two detectors ran to the end, three issues between them
C2_Witness ==
    /\ run.pc = "done" /\ run.error = ""
    /\ Len(run.detectors) = 2
    /\ Len(Val(run.result)) = 3
    /\ Len(ScanBuffer) = 10

\* C3: a failure while draining a detector reaches the caller of run: no
\* result is returned, no detector after the failing one is started, no
\* scan.complete is emitted, and the buffer ends with the failing detector's
\* span.end (if its span was opened) followed by the scan span.end.
C3_FailurePropagates ==
    /\ run.error # "" =>
          /\ ~Ref.ok
          /\ IsPrefix(Shapes(ScanBuffer), RefTrace)
          /\ \A i \in DOMAIN ScanBuffer : ScanBuffer[i].event # "scan.complete"
    /\ (run.pc = "done" /\ ~Ref.ok) =>
          /\ run.error # ""
          /\ IsNone(run.result)
          /\ Shapes(ScanBuffer) = RefTrace

\* the second of three selected detectors failed after one issue
C3_Witness ==
    /\ run.pc = "done" /\ run.error # ""
    /\ Len(run.detectors) = 3
    /\ run.i = 2
    /\ Len(run.issues) >= 2

\* C4: the issues are collected detector by detector in ascending order of
\* registry name, each detector's in yield order, and a successful run
\* returns exactly that sequence, which is a function of the set of
\* registered entries and the filters.
C4_IssueOrder ==
    /\ IsPrefix(Messages(run.issues), Ref.messages)
    /\ (run.pc = "done" /\ Ref.ok) =>
          /\ ~IsNone(run.result)
          /\ Messages(Val(run.result)) = Ref.messages

\* detectors registered as b, then a: a's issue is returned before b's two
C4_Witness ==
    /\ run.pc = "done" /\ ~IsNone(run.result)
    /\ NamesOf(registry) = <<"b", "a">>
    /\ Messages(Val(run.result)) = <<"m1", "m2", "m3">>

----------------------------------------------------------------------------
(* Properties of the tracer, checked under SpecTracer *)

\* the buffer of the root tracer, which the family shares
RootBuffer == events(Heap, 1)

\* where in the buffer the events named `event` of call k of thread t are
SpanEvents(t, k, event) ==
    {i \in DOMAIN RootBuffer :
        /\ RootBuffer[i].event = event
        /\ RootBuffer[i].data.who = t
        /\ RootBuffer[i].data.n = k}

\* C1: a span has at most one span.start and one span.end in the buffer, the
\* end after the start; once its body is running the start is there; once
\* the body has been left, by falling off its end, returning or raising, the
\* start and exactly one end are there.
C1_SpanStartEnd ==
    \A t \in Threads, k \in 1..MaxOps :
        LET S == SpanEvents(t, k, "span.start")
            E == SpanEvents(t, k, "span.end")
        IN  /\ Cardinality(S) <= 1
            /\ Cardinality(E) <= 1
            /\ E # {} => S # {}
            /\ \A i \in S, j \in E : i < j
            /\ (\E i \in DOMAIN th[t].spans : th[t].spans[i].n = k) => Cardinality(S) = 1
            /\ (\E i \in DOMAIN th[t].left : th[t].left[i].n = k) =>
                  Cardinality(S) = 1 /\ Cardinality(E) = 1

\* a body raised, and another thread's event lies between its span's start and end
C1_Witness ==
    \E t \in Threads, i, m, j \in DOMAIN RootBuffer :
        /\ i < m /\ m < j
        /\ RootBuffer[i].event = "span.start" /\ RootBuffer[i].data.who = t
        /\ RootBuffer[j].event = "span.end" /\ RootBuffer[j].data.who = t
        /\ RootBuffer[m].data.who # t
        /\ th[t].left = <<[n |-> RootBuffer[i].data.n, how |-> "raise"]>>

\* result has the keys of base and over, over's value where both have one
Overrides(base, over, result) ==
    /\ DOMAIN result = (DOMAIN base) \cup (DOMAIN over)
    /\ \A k \in DOMAIN over : result[k] = over[k]
    /\ \A k \in (DOMAIN base) \ (DOMAIN over) : result[k] = base[k]

\* C9: the context of a child is the parent's overridden by the context
\* given; the data of an event is the emitting tracer's context overridden
\* by the data given; the tracer of a span has the context of a child given
\* span = the span's name and the span's context, and span.start and
\* span.end carry it.
C9_ContextMerge ==
    /\ \A t \in Threads :
          /\ th[t].made.outcome = "child" =>
                Overrides(tracers[th[t].made.parent].context, th[t].made.context,
                          tracers[th[t].made.result].context)
          /\ th[t].made.outcome = "span" =>
                /\ tracers[th[t].made.result].context.span = "op"
                /\ Overrides(tracers[th[t].made.parent].context,
                             [span |-> "op"] @@ th[t].made.context,
                             tracers[th[t].made.result].context)
          /\ th[t].pc \in {"acquire", "locked", "sink"} =>
                Overrides(tracers[th[t].tracer].context, th[t].data, th[t].ev.data)
    /\ \A i \in DOMAIN RootBuffer :
          RootBuffer[i].event \in {"span.start", "span.end"} =>
              \E h \in DOMAIN tracers :
                  /\ "span" \in DOMAIN tracers[h].context
                  /\ tracers[h].context.span = "op"
                  /\ RootBuffer[i].data = tracers[h].context

\* child(x=1) on {a: 1} gave {a: 1, x: 1}, and emit("e", x=2, ...) on it builds a=1, x=2
C9_Witness ==
    \E t \in Threads :
        /\ th[t].pc = "locked"
        /\ tracers[1].context = [a |-> 1]
        /\ th[t].tracer # 1
        /\ tracers[th[t].tracer].context = [a |-> 1, x |-> 1]
        /\ th[t].data.x = 2
        /\ th[t].ev.data.a = 1 /\ th[t].ev.data.x = 2

\* the events of thread t in the buffer, in buffer order
Mine(t) == SelectSeq(RootBuffer, LAMBDA e : e.data.who = t)

\* how many of the events thread t has built have been appended
Appended(t) == Len(calls[t]) - (IF th[t].pc \in {"acquire", "locked"} THEN 1 ELSE 0)

\* C10: every tracer of the family has the root's buffer and lock; the
\* buffer holds each event a thread has had appended exactly once, each
\* thread's events in the order it emitted them, and nothing else; the
\* buffer changes only by growing at its end; events() on any tracer of the
\* family returns the buffer as it is when the copy is made.
C10_ConcurrentEmit ==
    /\ [](/\ \A h \in DOMAIN tracers :
                /\ tracers[h].events = tracers[1].events
                /\ tracers[h].lock = tracers[1].lock
          /\ \A t \in Threads : Mine(t) = SubSeq(calls[t], 1, Appended(t))
          /\ Len(RootBuffer) = Appended(1) + Appended(2))
    /\ [][/\ IsPrefix(RootBuffer, RootBuffer')
          /\ \A t \in Threads :
                (th'[t].snapshot # th[t].snapshot /\ ~IsNone(th'[t].snapshot)) =>
                    Val(th'[t].snapshot) = RootBuffer]_vars

\* both threads have emitted and both events are in the buffer
C10_Witness ==
    /\ Len(RootBuffer) = 2
    /\ RootBuffer[1].data.who # RootBuffer[2].data.who
    /\ \A t \in Threads : th[t].pc = "idle" /\ Len(calls[t]) = 1

----------------------------------------------------------------------------
(* Properties of the sink, checked under SpecSink *)

\* C11: the k-th call of the sink is given the k-th event of the buffer, and
\* the sink is never running in two threads at once.
C11_SinkSerialized ==
    /\ Len(sinkLog) <= Len(RootBuffer)
    /\ \A k \in DOMAIN sinkLog : sinkLog[k] = RootBuffer[k]
    /\ ~(th[1].pc = "in_sink" /\ th[2].pc = "in_sink")

\* how many of the events thread t has built have been given to the sink
Called(t) == Len(calls[t]) - (IF th[t].pc \in {"acquire", "locked", "sink"} THEN 1 ELSE 0)

\* the calls of the sink made from thread t, in call order
SinkCallsOf(t) == SelectSeq(sinkLog, LAMBDA e : e.data.who = t)

\* C12: with a sink, every emit, on the root, a child or a span tracer, calls
\* the sink once, after the append, with the event it appended; so the sink
\* calls made from a thread are the events of its emits, in order, each once,
\* and when no emit is under way there are as many sink calls as events in
\* the buffer.  Without a sink nothing is called.
C12_SinkOncePerEmit ==
    /\ tracers[1].sink = "none" => sinkLog = <<>>
    /\ tracers[1].sink # "none" =>
          /\ \A t \in Threads : SinkCallsOf(t) = SubSeq(calls[t], 1, Called(t))
          /\ Len(sinkLog) = Called(1) + Called(2)
          /\ \A k \in DOMAIN sinkLog : \E i \in DOMAIN RootBuffer : RootBuffer[i] = sinkLog[k]
          /\ (\A t \in Threads : th[t].pc = "idle") => Len(sinkLog) = Len(RootBuffer)

\* two emits have returned, one of them made on a span tracer, and the sink
\* was called twice
C12_Witness ==
    /\ tracers[1].sink = "record"
    /\ \A t \in Threads : th[t].pc = "idle"
    /\ Len(sinkLog) = 2
    /\ \E k \in DOMAIN sinkLog : sinkLog[k].event = "span.start"

\* C18: a tracer, once made, keeps its context, list, lock, sink and clock
\* whatever child, span and emit calls follow; child() leaves the buffer and
\* the sink's record as they are; every tracer of the family has the root's
\* list, lock, sink and clock, so events() is the same sequence on each and
\* holds what was emitted on any of them.
C18_ChildFrame ==
    /\ [](/\ \A h \in DOMAIN tracers :
                /\ tracers[h].events = tracers[1].events
                /\ tracers[h].lock = tracers[1].lock
                /\ tracers[h].sink = tracers[1].sink
                /\ tracers[h].clock = tracers[1].clock
                /\ events(Heap, h) = RootBuffer
          /\ \A t \in Threads : Mine(t) = SubSeq(calls[t], 1, Appended(t)))
    /\ [][/\ \A h \in DOMAIN tracers : h \in DOMAIN tracers' /\ tracers'[h] = tracers[h]
          /\ \A t \in Threads :
                (th'[t].made # th[t].made /\ th'[t].made.outcome = "child") =>
                    /\ buffers' = buffers
                    /\ sinkLog' = sinkLog
                    /\ Len(tracers') = Len(tracers) + 1]_vars

\* a thread made a child of the root, with another context, and emitted on
\* it: the event is what events() of the root returns
C18_Witness ==
    \E t \in Threads :
        /\ th[t].pc = "idle" /\ th[t].cur # 1 /\ th[t].made = NoChild
        /\ tracers[th[t].cur].context # tracers[1].context
        /\ Len(calls[t]) = 1 /\ calls[t][1].event = "e"
        /\ events(Heap, 1) = calls[t]

----------------------------------------------------------------------------
(* Properties of re-entrant emission, checked under SpecReentrant *)

\* the emits of thread t have all returned; the last appended the echo of
\* the sink, after the event it echoes
AllReturned(t) ==
    /\ th[t].pc = "idle" /\ IsNone(th[t].outer)
    /\ Mine(t) = calls[t]
    /\ calls[t] # <<>> /\ calls[t][Len(calls[t])].event = "sink.echo"

\* C13: an emit whose sink emits on the same family returns: from inside
\* emit, and from inside the sink with its own emit under way, the thread
\* gets back to its caller, the echo appended after the event echoed.
C13_ReentrantEmitReturns ==
    \A t \in Threads :
        /\ (th[t].pc # "idle") ~> AllReturned(t)
        /\ (~IsNone(th[t].outer)) ~> AllReturned(t)

\* one emit has returned: the buffer holds its event, then the echo, and the
\* sink was called with both
C13_Witness ==
    \E t \in Threads :
        /\ AllReturned(t)
        /\ Len(calls[t]) = 2
        /\ RootBuffer = calls[t]
        /\ RootBuffer[1].event = "e" /\ RootBuffer[2].event = "sink.echo"
        /\ sinkLog = RootBuffer

----------------------------------------------------------------------------
(* Properties of Detector.run and Issue, checked under Spec *)

\* the issue events of the buffer, in buffer order
IssueEvents == SelectSeq(ScanBuffer, LAMBDA e : e.event = "issue")

\* the events of the span of the detector registered as name
DetectorSpanEvents(name, event) ==
    {i \in DOMAIN ScanBuffer :
        /\ ScanBuffer[i].event = event
        /\ "span" \in DOMAIN ScanBuffer[i].data /\ ScanBuffer[i].data.span = "detector"
        /\ ScanBuffer[i].data.detector = name}

\* C14: with a missing root the first detector fails with NotFound in the
\* step that starts it, and that step leaves the buffer and the sink's record
\* as they are and does not reach detect; so the trace has no event of a
\* detector span and no issue event, and no issue is collected.
C14_MissingRoot ==
    /\ [](/\ (~run.root_exists /\ run.detectors # <<>>
                /\ run.pc \in {"detect", "yield", "det_exit", "complete", "scan_exit", "done"})
                => run.error = "NotFound"
          /\ run.error = "NotFound" =>
                /\ ~run.root_exists
                /\ run.i = 1 /\ run.pos = 0 /\ run.span = 0
                /\ run.issues = <<>> /\ IsNone(run.result)
                /\ \A i \in DOMAIN ScanBuffer :
                      /\ ScanBuffer[i].event \in {"span.start", "span.end"}
                      /\ ScanBuffer[i].data.span = "scan")
    /\ [][(run.pc = "start" /\ ~run.root_exists) =>
              /\ run'.error = "NotFound"
              /\ buffers' = buffers /\ sinkLog' = sinkLog /\ tracers' = tracers]_vars

\* the scan of two detectors over a missing root has ended: the buffer holds
\* the two events of the scan span
C14_Witness ==
    /\ run.pc = "done" /\ run.error = "NotFound"
    /\ Len(run.detectors) = 2
    /\ Len(ScanBuffer) = 2
    /\ sinkLog = ScanBuffer

\* the class and the value, as detect produced it, of the Issue with this message
Produced(message) ==
    CHOOSE x \in UNION {{[cls |-> c, issue |-> DetectScript[c][i].issue] :
                             i \in {j \in DOMAIN DetectScript[c] :
                                       DetectScript[c][j].kind = "issue"}} :
                         c \in DetectorClasses} :
        x.issue.message = message

\* got is raw with detector and severity filled in where blank
Filled(c, raw, got) ==
    got = [raw EXCEPT !.detector = IF raw.detector = "" THEN ClsName[c] ELSE raw.detector,
                      !.severity = IF raw.severity = "" THEN ClsDefaultSeverity[c]
                                   ELSE raw.severity]

\* C15: every issue collected is the Issue detect produced with detector and
\* severity filled in only where blank; the k-th issue event carries the
\* serialized form of the k-th issue as filled in; the event of an issue is
\* in the buffer before the issue is yielded; the issues come in the order
\* detect produced them.
C15_NormalizeTraceYield ==
    /\ Len(IssueEvents) = Len(run.issues) + (IF run.pc = "yield" THEN 1 ELSE 0)
    /\ run.pc = "yield" =>
          /\ ~IsNone(run.pending)
          /\ Filled(Produced(Val(run.pending).message).cls,
                    Produced(Val(run.pending).message).issue, Val(run.pending))
          /\ IssueEvents[Len(IssueEvents)].data = to_dict(Val(run.pending))
    /\ \A k \in DOMAIN run.issues :
          /\ Filled(Produced(run.issues[k].message).cls,
                    Produced(run.issues[k].message).issue, run.issues[k])
          /\ IssueEvents[k].data = to_dict(run.issues[k])
    /\ IsPrefix(Messages(run.issues), Ref.messages)

\* a's issue had no detector and no severity and got "a" and "warning"; b's
\* first had "x" and "info" and kept them
C15_Witness ==
    /\ run.pc = "done"
    /\ Messages(run.issues) = <<"m1", "m2", "m3">>
    /\ run.issues[1].detector = "a" /\ run.issues[1].severity = "warning"
    /\ run.issues[2].detector = "x" /\ run.issues[2].severity = "info"
    /\ IssueEvents[2].data.detector = "x"

\* C16: when a detector fails with TypeMismatch, the value at which detect
\* stopped being drained is not an Issue; the Issues before it are the last
\* issues collected and the last issue events; nothing of what detect
\* produces from that value on is collected or traced; and once the failure
\* has left the detector, its span has exactly one span.end, after its
\* issue events.
C16_NonIssueFails ==
    run.error = "TypeMismatch" =>
        LET d      == run.detectors[run.i]
            script == DetectScript[d.cls]
            p      == GoodPrefix(d.cls) + 1
            before == [i \in 1..(p - 1) |-> script[i].issue.message]
            after  == {script[i].issue.message : i \in p..Len(script)}
            name   == tracers[d.tracer].context.detector
            n      == Len(run.issues)
            ends   == DetectorSpanEvents(name, "span.end")
        IN  /\ script[p].kind = "other"
            /\ n >= p - 1
            /\ SubSeq(Messages(run.issues), n - (p - 1) + 1, n) = before
            /\ [k \in DOMAIN IssueEvents |-> IssueEvents[k].data.message] = Messages(run.issues)
            /\ \A k \in DOMAIN run.issues : run.issues[k].message \notin after
            /\ IsNone(run.result) /\ IsNone(run.pending)
            /\ Cardinality(DetectorSpanEvents(name, "span.start")) = 1
            /\ run.pc = "det_exit" => ends = {}
            /\ run.pc \in {"scan_exit", "done"} =>
                  /\ Cardinality(ends) = 1
                  /\ \A i \in DOMAIN ScanBuffer :
                        ScanBuffer[i].event = "issue" => \A j \in ends : i < j

\* the second detector produced m4 and then a value that is not an Issue
C16_Witness ==
    /\ run.pc = "done" /\ run.error = "TypeMismatch"
    /\ run.i = 2
    /\ Messages(run.issues) = <<"m1", "m4">>
    /\ ScanBuffer[Len(ScanBuffer) - 1].event = "span.end"
    /\ ScanBuffer[Len(ScanBuffer) - 1].data.span = "detector"

\* the Issues of the scan: collected, or traced and about to be yielded
SeenIssues == Range(run.issues) \cup (IF IsNone(run.pending) THEN {} ELSE {Val(run.pending)})

\* C20: the serialization of an Issue has detector, message, path and
\* severity with the issue's values, line exactly when line is set and then
\* with its value, column likewise, details exactly when details is not
\* empty, and no other key.
C20_Serialization ==
    \A i \in SeenIssues :
        LET p == to_dict(i)
        IN  /\ {"detector", "message", "path", "severity"} \subseteq DOMAIN p
            /\ DOMAIN p \subseteq {"detector", "message", "path", "severity",
                                    "line", "column", "details"}
            /\ p.detector = i.detector /\ p.message = i.message
            /\ p.path = i.path /\ p.severity = i.severity
            /\ ("line" \in DOMAIN p) <=> ~IsNone(i.line)
            /\ ("line" \in DOMAIN p) => p.line = Val(i.line)
            /\ ("column" \in DOMAIN p) <=> ~IsNone(i.column)
            /\ ("column" \in DOMAIN p) => p.column = Val(i.column)
            /\ ("details" \in DOMAIN p) <=> i.details # EmptyDict
            /\ ("details" \in DOMAIN p) => p.details = i.details

\* an Issue with line 0, a column and details, and one with none of them,
\* have been serialized
C20_Witness ==
    /\ \E i \in SeenIssues :
          i.line = Some(0) /\ ~IsNone(i.column) /\ i.details # EmptyDict
    /\ \E i \in SeenIssues :
          IsNone(i.line) /\ IsNone(i.column) /\ i.details = EmptyDict
    /\ \E k \in DOMAIN IssueEvents : "line" \in DOMAIN IssueEvents[k].data
                                     /\ IssueEvents[k].data.line = 0

----------------------------------------------------------------------------
(* Empty names, checked under SpecRegistry *)

\* C17: the registry never has the empty string as a key; registering a
\* Detector class whose resolved name is empty, by register, by the decorator
\* (register without a name) or by item assignment, fails with Validation
\* and leaves the registry as it was.
C17_EmptyNameRefused ==
    /\ [](\A i \in DOMAIN registry : registry[i].name # "")
    /\ [][(/\ lastOp'.op \in {"register", "setitem"}
            /\ issubclass(lastOp'.cls)
            /\ GivenName(lastOp') = "") =>
              /\ lastOp'.outcome = "Validation"
              /\ registry' = registry]_vars

\* the decorator was applied to a Detector class that declares no name,
\* with overwrite, on a registry that has entries
C17_Witness ==
    /\ lastOp.op = "register" /\ IsNone(lastOp.name) /\ lastOp.overwrite
    /\ lastOp.cls = "DetAnon"
    /\ lastOp.outcome = "Validation"
    /\ Len(registry) >= 2

----------------------------------------------------------------------------
(* Timestamps, checked under SpecClock *)

\* C19: the timestamps of the buffer never decrease from one event to the next.
C19_TimestampsOrdered ==
    \A i, j \in DOMAIN RootBuffer :
        i < j => RootBuffer[i].timestamp <= RootBuffer[j].timestamp

----------------------------------------------------------------------------
(* The detector key of trace events, checked under Spec *)

\* the registry names of the detectors of the call in progress, in the order
\* they are run
SelectedNames == Ascending(Kept(registry, run.include, run.exclude))

\* the span.start events of detector spans, in buffer order
DetectorStarts ==
    SelectSeq(ScanBuffer, LAMBDA e : /\ e.event = "span.start"
                                     /\ "span" \in DOMAIN e.data
                                     /\ e.data.span = "detector")

\* the registry name of the detector whose span is the last opened before
\* position i of the buffer
Owner(i) ==
    LET starts == {j \in 1..(i - 1) : /\ ScanBuffer[j].event = "span.start"
                                       /\ ScanBuffer[j].data.span = "detector"}
    IN  ScanBuffer[CHOOSE j \in starts : \A k \in starts : k <= j].data.detector

\* every detector has a tracer whose context is {detector: its registry
\* name}, and the events of its span carry that name
WiredByRegistryName ==
    /\ run.pc # "idle" =>
          /\ Len(run.detectors) = Len(SelectedNames)
          /\ \A k \in DOMAIN run.detectors :
                /\ tracers[run.detectors[k].tracer].context = [detector |-> SelectedNames[k]]
                /\ run.detectors[k].cls = ClassAt(EntrySet(registry), SelectedNames[k])
    /\ \A k \in DOMAIN DetectorStarts : DetectorStarts[k].data.detector = SelectedNames[k]
    /\ \A i \in DOMAIN ScanBuffer :
          (/\ ScanBuffer[i].event = "span.end"
           /\ ScanBuffer[i].data.span = "detector") =>
              ScanBuffer[i].data.detector = Owner(i)

\* C21 as stated: besides the wiring and the span events, every issue event
\* carries detector = the registry name of the detector that produced it.
C21_DetectorKeyIsRegistryName ==
    /\ WiredByRegistryName
    /\ \A i \in DOMAIN ScanBuffer :
          ScanBuffer[i].event = "issue" => ScanBuffer[i].data.detector = Owner(i)

\* C21 as amended: the wiring and the span events as stated; the k-th issue
\* event carries detector = the detector field of the k-th issue as
\* normalised, that is the value the issue came with if not blank, else the
\* name the detector's class declares.
C21_DetectorKeyOfIssueEvents ==
    /\ WiredByRegistryName
    /\ Len(IssueEvents) = Len(run.issues) + (IF IsNone(run.pending) THEN 0 ELSE 1)
    /\ \A k \in DOMAIN IssueEvents :
          LET issue == IF k <= Len(run.issues) THEN run.issues[k] ELSE Val(run.pending)
              src   == Produced(issue.message)
          IN  /\ IssueEvents[k].data.detector = issue.detector
              /\ issue.detector = IF src.issue.detector # "" THEN src.issue.detector
                                   ELSE ClsName[src.cls]

\* the detector registered as "a" produced an Issue that names detector "x",
\* and one of a class that declares the name "b": neither event says "a"
C21_Witness ==
    /\ run.pc = "done"
    /\ SelectedNames = <<"a">>
    /\ ClassAt(EntrySet(registry), "a") = "DetB"
    /\ Len(IssueEvents) = 2
    /\ IssueEvents[1].data.detector = "x"
    /\ IssueEvents[2].data.detector = "b"
    /\ DetectorStarts[1].data.detector = "a"

----------------------------------------------------------------------------
(* A sink that raises, checked under SpecSinkFails *)

\* C22: when the sink raises, emit ends with the error (it is not
\* swallowed), the event it appended is in the buffer, and the buffer only
\* grows; the lock is held only by a thread that is between taking it and
\* leaving the with block, never by one in the sink or back at its caller;
\* and every emit and events() call begun, also after an emit that failed,
\* ends.
C22_SinkRaises ==
    /\ [](/\ \A t \in Threads : Mine(t) = SubSeq(calls[t], 1, Appended(t))
          /\ \A l \in DOMAIN locks :
                locks[l] # 0 => th[locks[l]].pc \in {"locked", "snap_copy"}
          /\ \A t \in Threads : th[t].raised => th[t].pc = "idle")
    /\ [][/\ IsPrefix(RootBuffer, RootBuffer')
          /\ \A t \in Threads :
                (th[t].pc = "in_sink" /\ th'[t].pc = "idle") =>
                    /\ th'[t].raised
                    /\ \E i \in DOMAIN RootBuffer' : RootBuffer'[i] = th[t].ev
                    /\ \A l \in DOMAIN locks' : locks'[l] # t]_vars
    /\ \A t \in Threads : (th[t].pc # "idle") ~> (th[t].pc = "idle")

\* a thread's first emit failed in the sink; its second emit was made all
\* the same and failed too: both events are in the buffer, the lock is free
C22_Witness ==
    \E t \in Threads :
        /\ th[t].raised /\ th[t].pc = "idle"
        /\ Len(calls[t]) = 2
        /\ RootBuffer = calls[t]
        /\ sinkLog = calls[t]
        /\ \A l \in DOMAIN locks : locks[l] = 0

----------------------------------------------------------------------------
(* Nesting of spans in the trace of a scan, checked under Spec *)

\* the span events of the buffer, in buffer order
SpanTrace == SelectSeq(ScanBuffer, LAMBDA e : e.event \in {"span.start", "span.end"})

IsSpanEvent(e, event, span) ==
    e.event = event /\ "span" \in DOMAIN e.data /\ e.data.span = span

\* how many spans are open after the first n span events
OpenAfter(n) ==
    Cardinality({i \in 1..n : SpanTrace[i].event = "span.start"})
    - Cardinality({i \in 1..n : SpanTrace[i].event = "span.end"})

\* C23: at every moment no span has ended that was not started and at most
\* two spans are open, the scan's and one detector's; when run has
\* returned or failed, the buffer begins with the scan span.start and ends
\* with the scan span.end, and between them the span events are pairs: a
\* detector's span.start, then the span.end of the same span, before the
\* next detector's span.start; so there are as many span.end as span.start.
C23_SpansNested ==
    /\ \A n \in 0..Len(SpanTrace) : OpenAfter(n) \in 0..2
    /\ run.pc = "done" =>
          /\ Len(ScanBuffer) >= 2
          /\ IsSpanEvent(ScanBuffer[1], "span.start", "scan")
          /\ IsSpanEvent(ScanBuffer[Len(ScanBuffer)], "span.end", "scan")
          /\ OpenAfter(Len(SpanTrace)) = 0
          /\ Len(SpanTrace) % 2 = 0
          /\ \A k \in 1..((Len(SpanTrace) \div 2) - 1) :
                /\ IsSpanEvent(SpanTrace[2 * k], "span.start", "detector")
                /\ IsSpanEvent(SpanTrace[2 * k + 1], "span.end", "detector")
                /\ SpanTrace[2 * k + 1].data = SpanTrace[2 * k].data

\* a scan whose second detector failed has ended: three spans, all closed,
\* and the sink was given every event
C23_Witness ==
    /\ run.pc = "done" /\ run.error = "DetectError"
    /\ Len(SpanTrace) = 6
    /\ Len(run.issues) = 2
    /\ sinkLog = ScanBuffer

====
